---- MODULE Spec2Model ----
(***************************************************************************)
(* A model of nickbreaton/importable: the identity registry                *)
(* (getStableFileSystemHandle), the recursive directory crawlers and the   *)
(* Effect session actor that drives re-crawls.                             *)
(*                                                                         *)
(* JavaScript strings are modelled as sequences of one-character strings,  *)
(* so that the leading-dot test and the "/"-join are computed, not assumed.*)
(* JavaScript values that meet in one expression (undefined, a pending     *)
(* Promise, a handle) are records with a "type" field.                     *)
(***************************************************************************)
EXTENDS Integers, Sequences, FiniteSets, TLC

VARIABLES
    \* ---- identity registry (part_003:224, revalidate.ts:30)
    knownFileSystemHandles, \* Map<string, WeakRef<handle>>
    nextRef,                \* the next fresh object reference the platform hands out
    lastCall,               \* history: the last resolve call and what it returned
    returnedBy,             \* history: per path key, what the last resolve returned
    \* ---- remix route loader (part_003:34-111)
    fs,                     \* the children of the persisted directory, in enumeration order
    fsOps,                  \* number of changes made to the directory so far
    crawls,                 \* number of clientLoader runs so far
    loaderData,             \* what the last clientLoader run returned
    regAtCrawl,             \* history: the registry as the last run found it
    prevData,               \* history: what the run before the last returned
    \* ---- Effect session actor and its Files component (Main.tsx:245-478)
    ref,                    \* the SubscriptionRef<State>
    store,                  \* localForage's "directory" item
    fibers,                 \* the eject / showDirectoryPicker calls under way
    sub,                    \* the Files effect's run of state.files
    running,                \* the crawlDirectoryHandle promises not yet settled
    fileTree,               \* React state of Files: the published entries
    fileError,              \* React state of Files: the crawl failure
    mounted,                \* whether the ErrorBoundary still renders Files
    ops,                    \* number of button clicks so far
    fired,                  \* number of host events so far
    lastSettled,            \* history: the last crawl that settled, and what became of it
    boot,                   \* history: what makeMainActor found and did
    \* ---- the document the invalidators listen to (part_001:76-90)
    doc,                    \* its visibility, and history: the last source that fired
    \* ---- the store React reads the actor through (Main.tsx:381-410)
    chan,                   \* ref.changes as its subscriber has it, and the snapshot
    \* ---- the ValueStore service in its two layers (ValueStore.ts:15-35)
    valueStore,             \* Memory's Ref, localforage's items, and history
    \* ---- the xstate session machine (Main.tsx:6-84)
    machine,                \* its snapshot, localForage's items, and history
    \* ---- the useActionState session (part_000:56-89)
    actionState             \* the hook's state and queue, and history

regVars == <<knownFileSystemHandles, nextRef, lastCall, returnedBy>>
loaderVars == <<fs, fsOps, crawls, loaderData, regAtCrawl, prevData>>
sessionVars == <<ref, store, fibers, sub, running, fileTree, fileError,
                 mounted, ops, fired, lastSettled, boot>>
vars == <<regVars, loaderVars, sessionVars, doc, chan, valueStore, machine,
          actionState>>

\* ------------------------------------------------------------------ bounds
MaxRefs == 3
MaxEnts == 2

\* ----------------------------------------------------------- JS strings
Slash == <<"/">>
NameA == <<"a">>
NameB == <<"b">>
NameC == <<"c">>
NameHidden == <<".", "h">>

\* a key made of the entry's own name alone
OwnName(parts) == IF Len(parts) = 0 THEN <<>> ELSE parts[Len(parts)]

\* Array.prototype.join("/") of an array of strings
RECURSIVE Join(_)
Join(parts) ==
    IF Len(parts) = 0 THEN <<>>
    ELSE IF Len(parts) = 1 THEN parts[1]
    ELSE parts[1] \o Slash \o Join(Tail(parts))

\* ------------------------------------------------------------ JS values
Undefined == [type |-> "undefined"]
Promise(b) == [type |-> "promise", settled |-> "fulfilled", value |-> b]
RejectedPromise == [type |-> "promise", settled |-> "rejected", value |-> FALSE]
\* comparable: whether the platform can tell what the handle denotes; when it
\* cannot, isSameEntry on it or with it rejects
FileSystemHandle(r, e, k, n) ==
    [type |-> "handle", ref |-> r, ent |-> e, kind |-> k, name |-> n,
     comparable |-> TRUE]

\* ToBoolean: undefined is falsy, every object (a Promise, a handle) is truthy
Truthy(v) == v.type # "undefined"

\* FileSystemHandle.isSameEntry(other): a Promise of whether both handles
\* denote the same underlying entity
isSameEntry(self, other) ==
    IF self.comparable /\ other.comparable
    THEN Promise(self.ent = other.ent)
    ELSE RejectedPromise

\* ------------------------------------------------------------- registry
Kinds == {"file", "directory"}
RegistryKeys == {NameA, Join(<<NameB, NameC>>)}
NoCall == [key |-> <<>>, made |-> FALSE]

\* knownFileSystemHandles.get(pathKey)?.deref()
Deref(reg, pathKey) ==
    IF pathKey \in DOMAIN reg /\ reg[pathKey].live
    THEN reg[pathKey].handle
    ELSE Undefined

\* a Map rebuilt with the one entry
MapOfOne(reg, pathKey, h) ==
    [k \in {pathKey} |-> [handle |-> h, live |-> TRUE]]

\* Map.prototype.set(pathKey, new WeakRef(h))
MapSet(reg, pathKey, h) ==
    [k \in (DOMAIN reg) \cup {pathKey} |->
        IF k = pathKey THEN [handle |-> h, live |-> TRUE] ELSE reg[k]]

\* previousHandle?.isSameEntry(handle): optional call, NOT awaited
SameEntryTest(previousHandle, handle) ==
    IF previousHandle.type = "undefined" THEN Undefined
    ELSE isSameEntry(previousHandle, handle)

StableAlwaysObserved(reg, pathKey, handle) == handle

StableHandleOf(reg, pathKey, handle) ==
    LET previousHandle == Deref(reg, pathKey)
    IN IF Truthy(SameEntryTest(previousHandle, handle))
       THEN previousHandle
       ELSE handle

getStableFileSystemHandle(reg, pathKey, handle) ==
    LET stableHandle == StableHandleOf(reg, pathKey, handle)
    IN [reg |-> MapSet(reg, pathKey, stableHandle), ret |-> stableHandle]

\* resolve(pathKey, handle), called with a fresh object the platform made
Resolve(pathKey, e, k, c) ==
    /\ nextRef <= MaxRefs
    /\ LET handle == [FileSystemHandle(nextRef, e, k, pathKey)
                        EXCEPT !.comparable = c]
           before == Deref(knownFileSystemHandles, pathKey)
           r == getStableFileSystemHandle(knownFileSystemHandles, pathKey, handle)
       IN /\ knownFileSystemHandles' = r.reg
          /\ lastCall' =
                [key |-> pathKey, made |-> TRUE, observed |-> handle,
                 hadPrev |-> pathKey \in DOMAIN returnedBy,
                 prevReturned |->
                    IF pathKey \in DOMAIN returnedBy
                    THEN returnedBy[pathKey] ELSE Undefined,
                 released |-> before.type = "undefined",
                 same |-> IF pathKey \in DOMAIN knownFileSystemHandles
                          THEN knownFileSystemHandles[pathKey].handle.ent = e
                          ELSE FALSE,
                 regBefore |-> knownFileSystemHandles,
                 test |-> SameEntryTest(before, handle),
                 ret |-> r.ret]
          /\ returnedBy' =
                [q \in (DOMAIN returnedBy) \cup {pathKey} |->
                    IF q = pathKey THEN r.ret ELSE returnedBy[q]]
    /\ nextRef' = nextRef + 1

\* the garbage collector clears a WeakRef (the Map keeps the key)
Release(pathKey) ==
    /\ pathKey \in DOMAIN knownFileSystemHandles
    /\ knownFileSystemHandles[pathKey].live
    /\ knownFileSystemHandles' =
          [knownFileSystemHandles EXCEPT ![pathKey].live = FALSE]
    /\ UNCHANGED <<nextRef, lastCall, returnedBy>>

\* ------------------------------------------------- the directory on disk
MaxFsOps == 1
MaxCrawls == 3

File(n) == [name |-> n, kind |-> "file", children |-> <<>>]
Dir(n, ch) == [name |-> n, kind |-> "directory", children |-> ch]
Names == {NameA, NameB, NameC, NameHidden}

\* files a, .h and directory b holding c
ExampleTree == <<File(NameA), File(NameHidden), Dir(NameB, <<File(NameC)>>)>>
EmptyTree == <<>>
HiddenTree ==
    <<Dir(NameHidden, <<File(NameA)>>),
      Dir(NameB, <<File(NameHidden), Dir(NameC, <<File(NameA)>>)>>)>>
SeedTrees == {ExampleTree, EmptyTree, HiddenTree}

\* index of the child called n, 0 when there is none
ChildIndex(children, n) ==
    IF \E i \in 1..Len(children) : children[i].name = n
    THEN CHOOSE i \in 1..Len(children) : children[i].name = n
    ELSE 0

\* the node a list of names leads to, from a directory's children
RECURSIVE NodeAt(_, _)
NodeAt(children, parts) ==
    LET i == ChildIndex(children, Head(parts))
    IN IF i = 0 THEN [kind |-> "none"]
       ELSE IF Len(parts) = 1 THEN children[i]
       ELSE IF children[i].kind # "directory" THEN [kind |-> "none"]
       ELSE NodeAt(children[i].children, Tail(parts))

\* every list of names that leads to a directory (<<>> is the root)
RECURSIVE DirPaths(_, _)
DirPaths(children, prefix) ==
    {prefix} \cup
    UNION {DirPaths(children[i].children, Append(prefix, children[i].name)) :
             i \in {j \in 1..Len(children) : children[j].kind = "directory"}}

\* every list of names that leads to an entry
RECURSIVE EntryPaths(_, _)
EntryPaths(children, prefix) ==
    UNION {{Append(prefix, children[i].name)} \cup
           EntryPaths(children[i].children, Append(prefix, children[i].name)) :
             i \in 1..Len(children)}

InsertAt(seq, pos, x) ==
    SubSeq(seq, 1, pos - 1) \o <<x>> \o SubSeq(seq, pos, Len(seq))
RemoveAt(seq, pos) ==
    SubSeq(seq, 1, pos - 1) \o SubSeq(seq, pos + 1, Len(seq))

\* the children with node x put at position pos of the directory at `parts`
RECURSIVE WithEntry(_, _, _, _)
WithEntry(children, parts, pos, x) ==
    IF Len(parts) = 0 THEN InsertAt(children, pos, x)
    ELSE LET i == ChildIndex(children, Head(parts))
         IN [children EXCEPT ![i].children =
                WithEntry(children[i].children, Tail(parts), pos, x)]

\* the children without the entry at `parts`
RECURSIVE WithoutEntry(_, _)
WithoutEntry(children, parts) ==
    LET i == ChildIndex(children, Head(parts))
    IN IF Len(parts) = 1 THEN RemoveAt(children, i)
       ELSE [children EXCEPT ![i].children =
                WithoutEntry(children[i].children, Tail(parts))]

ChildrenOf(children, parts) ==
    IF Len(parts) = 0 THEN children ELSE NodeAt(children, parts).children

\* ----------------------------------------------------------- the crawler
\* CRAWL_DISALLOW.some((disallowed) => name.match(disallowed)), with /^\./
NeverDisallowed(name) == FALSE

Disallowed(name) == Len(name) > 0 /\ name[1] = "."

Leaf == [node |-> "leaf"]
Subtree(t) == [node |-> "dir", tree |-> t]

\* obj[key] = value on a plain object
ObjSet(obj, key, value) ==
    [k \in (DOMAIN obj) \cup {key} |-> IF k = key THEN value ELSE obj[k]]

\* the locator a path key and kind stand for: what isSameEntry compares
Locator(pathKey, kind) == <<pathKey, kind>>

\* an enumeration that throws where it finds no entry
EnumerateSomething(disk, dirHandle, precedingPaths) ==
    IF Len(precedingPaths) = 0
    THEN [ok |-> Len(disk) > 0, children |-> disk]
    ELSE LET n == NodeAt(disk, precedingPaths)
         IN [ok |-> n.kind = "directory" /\ dirHandle.kind = "directory"
                    /\ Len(n.children) > 0,
             children |-> n.children]

\* directoryHandle.values(): the children there now, or a throw when the
\* handle no longer leads to a directory
Enumerate(disk, dirHandle, precedingPaths) ==
    IF Len(precedingPaths) = 0 THEN [ok |-> TRUE, children |-> disk]
    ELSE LET n == NodeAt(disk, precedingPaths)
         IN IF n.kind = "directory" /\ dirHandle.kind = "directory"
            THEN [ok |-> TRUE, children |-> n.children]
            ELSE [ok |-> FALSE, children |-> <<>>]

RECURSIVE crawlDirectoryHandle(_, _, _, _, _)
RECURSIVE CrawlLoop(_, _, _, _, _, _)

\* the body of `for await (const unstableHandle of directoryHandle.values())`
\* from child i on; acc is [ok, tree, images, reg]
CrawlLoop(disk, children, i, precedingPaths, acc, epoch) ==
    IF i > Len(children) \/ ~acc.ok THEN acc
    ELSE
    LET unstableName == children[i].name
    IN IF Disallowed(unstableName)
       THEN CrawlLoop(disk, children, i + 1, precedingPaths, acc, epoch)
       ELSE
       LET fullPath == Append(precedingPaths, unstableName)
           fullPathKey == Join(fullPath)
           unstableHandle ==
               FileSystemHandle(epoch, Locator(fullPathKey, children[i].kind),
                                children[i].kind, unstableName)
           r == getStableFileSystemHandle(acc.reg, fullPathKey, unstableHandle)
           handle == r.ret
       IN IF handle.kind = "file"
          THEN CrawlLoop(disk, children, i + 1, precedingPaths,
                   [ok |-> TRUE,
                    tree |-> ObjSet(acc.tree, handle.name, Leaf),
                    images |-> Append(acc.images,
                                  [fullPath |-> fullPathKey, handle |-> handle]),
                    reg |-> r.reg],
                   epoch)
          ELSE LET child == crawlDirectoryHandle(disk, handle, fullPath, r.reg, epoch)
               IN CrawlLoop(disk, children, i + 1, precedingPaths,
                      [ok |-> child.ok,
                       tree |-> ObjSet(acc.tree, handle.name \o Slash,
                                       Subtree(child.tree)),
                       images |-> acc.images \o child.images,
                       reg |-> child.reg],
                      epoch)

\* a crawl that takes a directory it cannot enumerate as one with no entries
crawlSkipsUnreadable(disk, directoryHandle, precedingPaths, reg, epoch) ==
    CrawlLoop(disk, Enumerate(disk, directoryHandle, precedingPaths).children,
              1, precedingPaths,
              [ok |-> TRUE, tree |-> <<>>, images |-> <<>>, reg |-> reg], epoch)

crawlDirectoryHandle(disk, directoryHandle, precedingPaths, reg, epoch) ==
    LET listing == Enumerate(disk, directoryHandle, precedingPaths)
        start == [ok |-> TRUE, tree |-> <<>>, images |-> <<>>, reg |-> reg]
    IN IF listing.ok
       THEN CrawlLoop(disk, listing.children, 1, precedingPaths, start, epoch)
       ELSE [start EXCEPT !.ok = FALSE]

RootHandle == FileSystemHandle(0, Locator(<<>>, "directory"), "directory", <<>>)
NoData == [run |-> FALSE]

\* clientLoader, with a mounted persisted directory: crawl it and return
\* {selected: true, tree, images}; a throw of the crawl rejects the loader
clientLoader ==
    /\ crawls < MaxCrawls
    /\ LET r == crawlDirectoryHandle(fs, RootHandle, <<>>,
                                     knownFileSystemHandles, crawls + 1)
       IN /\ knownFileSystemHandles' = r.reg
          /\ loaderData' =
                IF r.ok
                THEN [run |-> TRUE, ok |-> TRUE, tree |-> r.tree,
                      images |-> r.images, disk |-> fs]
                ELSE [run |-> TRUE, ok |-> FALSE, disk |-> fs]
    /\ regAtCrawl' = knownFileSystemHandles
    /\ prevData' = loaderData
    /\ crawls' = crawls + 1
    /\ UNCHANGED <<fs, fsOps, nextRef, lastCall, returnedBy>>

\* something outside the program adds an entry to a directory
AddEntry(parts, pos, n, k) ==
    /\ fsOps < MaxFsOps
    /\ ChildIndex(ChildrenOf(fs, parts), n) = 0
    /\ fs' = WithEntry(fs, parts, pos, IF k = "file" THEN File(n) ELSE Dir(n, <<>>))
    /\ fsOps' = fsOps + 1
    /\ UNCHANGED <<crawls, loaderData, regAtCrawl, prevData, regVars>>

\* something outside the program removes an entry (and what is beneath it)
RemoveEntry(parts) ==
    /\ fsOps < MaxFsOps
    /\ fs' = WithoutEntry(fs, parts)
    /\ fsOps' = fsOps + 1
    /\ UNCHANGED <<crawls, loaderData, regAtCrawl, prevData, regVars>>

\* something outside the program puts an entry of the other kind in the place
\* of an entry, under the same name
ReplaceEntry(parts) ==
    /\ fsOps < MaxFsOps
    /\ LET old == NodeAt(fs, parts)
           new == IF old.kind = "file" THEN Dir(old.name, <<>>) ELSE File(old.name)
           parent == SubSeq(parts, 1, Len(parts) - 1)
           pos == ChildIndex(ChildrenOf(fs, parent), old.name)
       IN fs' = WithEntry(WithoutEntry(fs, parts), parent, pos, new)
    /\ fsOps' = fsOps + 1
    /\ UNCHANGED <<crawls, loaderData, regAtCrawl, prevData, regVars>>

\* whether the loader data the page holds keeps handle h reachable
Held(h) ==
    /\ loaderData.run
    /\ loaderData.ok
    /\ \E i \in 1..Len(loaderData.images) : loaderData.images[i].handle = h

\* a garbage collection: every WeakRef whose handle nothing else holds is
\* cleared (the Map keeps its keys)
CollectGarbage ==
    /\ \E p \in DOMAIN knownFileSystemHandles :
          knownFileSystemHandles[p].live /\ ~Held(knownFileSystemHandles[p].handle)
    /\ knownFileSystemHandles' =
          [p \in DOMAIN knownFileSystemHandles |->
              [handle |-> knownFileSystemHandles[p].handle,
               live |-> knownFileSystemHandles[p].live
                        /\ Held(knownFileSystemHandles[p].handle)]]
    /\ UNCHANGED <<nextRef, lastCall, returnedBy, loaderVars>>

\* ------------------------------------------------- the ValueStore service
MaxCalls == 3
Layers == {"Memory", "IndexedDB"}
ServiceTag == "Service._tag"
Null == "null"

\* Option
None == [tag |-> "None", value |-> Null]
Some(v) == [tag |-> "Some", value |-> v]
fromNullable(v) == IF v = Null THEN None ELSE Some(v)

\* localforage.getItem / setItem / removeItem on the items of the instance
getItem(items, key) == IF key \in DOMAIN items THEN items[key] ELSE Null
setItem(items, key, v) ==
    [k \in (DOMAIN items) \cup {key} |-> IF k = key THEN v ELSE items[k]]
\* localforage.clear() in the place of removeItem
clearItems(items, key) == <<>>

removeItem(items, key) == [k \in (DOMAIN items) \ {key} |-> items[k]]

\* wrote, calls and got are history: what the last set or unset of a layer
\* asked for, the number of calls, and the last get with what it returned
set(layer, value) ==
    /\ valueStore.calls < MaxCalls
    /\ valueStore' =
          [valueStore EXCEPT
             !.ref = IF layer = "Memory" THEN Some(value) ELSE @,
             !.items = IF layer = "IndexedDB"
                       THEN setItem(@, ServiceTag, value) ELSE @,
             !.wrote[layer] = Some(value),
             !.calls = @ + 1]

unset(layer) ==
    /\ valueStore.calls < MaxCalls
    /\ valueStore' =
          [valueStore EXCEPT
             !.ref = IF layer = "Memory" THEN None ELSE @,
             !.items = IF layer = "IndexedDB"
                       THEN removeItem(@, ServiceTag) ELSE @,
             !.wrote[layer] = None,
             !.calls = @ + 1]

get(layer) ==
    /\ valueStore.calls < MaxCalls
    /\ valueStore' =
          [valueStore EXCEPT
             !.got = [made |-> TRUE, layer |-> layer,
                      value |-> IF layer = "Memory" THEN valueStore.ref
                                ELSE fromNullable(getItem(valueStore.items,
                                                          ServiceTag)),
                      wrote |-> valueStore.wrote[layer]],
             !.calls = @ + 1]

\* ------------------------------------------ the Effect session actor
MaxFibers == 2
MaxOps == 2
MaxTriggers == 1
MaxEvents == 3

FiberIds == 1..MaxFibers
NoHandle == "none"
Handles == {"d1", "d2"}
\* the invalidators merged after Stream.void (part_001:86-89; Main.tsx has the
\* first two); a source gated by isDocumentVisible fires when its filter passes
EventSources == {"focus", "mouseenter", "visibilitychange", "tick"}

\* what the directory behind a picked handle holds: d1 has file .h and
\* directory b holding c, d2 is empty
DirOf(h) ==
    IF h = "d1"
    THEN <<File(NameHidden), Dir(NameB, <<File(NameC)>>)>>
    ELSE EmptyTree

\* State = Data.TaggedEnum<{Ejected, Selecting, Selected{directory, files}}>
Ejected == [tag |-> "Ejected", directory |-> NoHandle]
Selecting == [tag |-> "Selecting", directory |-> NoHandle]
Selected(d) == [tag |-> "Selected", directory |-> d]

Idle == [pc |-> "idle", handle |-> NoHandle, call |-> "none"]
\* overtaken and prev are history: whether an element arrived during the
\* crawl the run waits on, and how the run's last crawl ended
NoSub == [active |-> FALSE, dir |-> NoHandle, pending |-> 0,
          overtaken |-> FALSE,
          prev |-> [any |-> FALSE, overtaken |-> FALSE, aborted |-> FALSE]]
\* Stream.void among the merged sources puts one element in at once
Subscribed(d) == [NoSub EXCEPT !.active = TRUE, !.dir = d, !.pending = 1]

\* [precedingPaths, handle.name].filter(Boolean).join("/")
PathOf(precedingPaths, name) ==
    Join(SelectSeq(<<precedingPaths, name>>, LAMBDA x : Len(x) > 0))

\* the children a crawl of a directory meets, in the order it meets them;
\* depth 0 is the loop of the outermost call
RECURSIVE VisitsOf(_, _, _)
VisitsOf(children, precedingPaths, depth) ==
    IF Len(children) = 0 THEN <<>>
    ELSE LET c == Head(children)
             path == PathOf(precedingPaths, c.name)
             below == IF c.kind = "directory" /\ ~Disallowed(c.name)
                      THEN VisitsOf(c.children, path, depth + 1)
                      ELSE <<>>
         IN <<[name |-> c.name, kind |-> c.kind, path |-> path, depth |-> depth]>>
            \o below \o VisitsOf(Tail(children), precedingPaths, depth)

Visits(d) == VisitsOf(DirOf(d), <<>>, 0)

\* `if (signal?.aborted) break`: the recursive call is made without `signal`,
\* so only the outermost loop reads it
SignalChecked(v) == v.depth = 0

\* Stream.flatMap without options runs one inner effect at a time: the next
\* trigger is pulled when the crawl before it has settled
PullsUnbounded(run) == TRUE

PullsNext(run) == \A i \in DOMAIN run : run[i].aborted

\* Effect.promise((signal) => ...): an interrupted fiber no longer takes the
\* promise's outcome
DeliversAlways(c) == TRUE

\* a run that takes no crawl's outcome
DeliversNever(c) == FALSE

Delivers(c) == ~c.aborted

\* the Files effect's cleanup: the run is interrupted, which aborts the signal
\* of the promise it waits on
KeepsRunning(run) == run

Interrupted(run) == [i \in DOMAIN run |-> [run[i] EXCEPT !.aborted = TRUE]]

\* Ref.set(ref, next) and the render it causes: Files' effect (deps [state])
\* cleans up its run and, for a Selected state, runs state.files anew. The
\* run that is cleaned up exits interrupted, a failure to Exit.isFailure, so
\* its onExit calls setFileError
Commit(next) ==
    /\ ref' = next
    /\ running' = Interrupted(running)
    /\ fileError' = (fileError \/ sub.active)
    /\ sub' = IF next.tag = "Selected" /\ mounted
              THEN Subscribed(next.directory)
              ELSE NoSub

\* runtime.runPromise forks a fiber for the call: the first free one
Free(f) ==
    /\ fibers[f].pc = "idle"
    /\ \A g \in FiberIds : fibers[g].pc = "idle" => f <= g

\* the reset button: eject() starts with localForage.removeItem
eject(f) ==
    /\ ops < MaxOps
    /\ Free(f)
    /\ fibers' = [fibers EXCEPT ![f] = [Idle EXCEPT !.pc = "removing",
                                                     !.call = "eject"]]
    /\ ops' = ops + 1
    /\ UNCHANGED <<ref, store, sub, running, fileTree, fileError, mounted,
                   fired, lastSettled>>

\* removeItem resolved: Ref.set(ref, State.Ejected())
RemoveItemDone(f) ==
    /\ fibers[f].pc = "removing"
    /\ store' = NoHandle
    /\ Commit(Ejected)
    /\ fibers' = [fibers EXCEPT ![f] = Idle]
    /\ UNCHANGED <<fileTree, mounted, ops, fired, lastSettled>>

\* the open button: Ref.set(ref, State.Selecting()), then the picker
showDirectoryPicker(f) ==
    /\ ops < MaxOps
    /\ Free(f)
    /\ Commit(Selecting)
    /\ fibers' = [fibers EXCEPT ![f] = [Idle EXCEPT !.pc = "picking",
                                        !.call = "showDirectoryPicker"]]
    /\ ops' = ops + 1
    /\ UNCHANGED <<store, fileTree, mounted, fired, lastSettled>>

\* window.showDirectoryPicker() resolved: localForage.setItem starts
PickerResolved(f, h) ==
    /\ fibers[f].pc = "picking"
    /\ fibers' = [fibers EXCEPT ![f].pc = "saving", ![f].handle = h]
    /\ UNCHANGED <<ref, store, sub, running, fileTree, fileError, mounted,
                   ops, fired, lastSettled>>

\* a call that ends on the picker's failure and runs no eject
PickerRejectedEnds(f) ==
    /\ fibers[f].pc = "picking"
    /\ fibers' = [fibers EXCEPT ![f] = Idle]
    /\ UNCHANGED <<ref, store, sub, running, fileTree, fileError, mounted,
                   ops, fired, lastSettled>>

\* window.showDirectoryPicker() rejected: Effect.catchAll(eject) runs eject,
\* whose result is no handle, and `if (!handle) return` ends the call
PickerRejectedGoesOn(f) ==
    /\ fibers[f].pc = "picking"
    /\ fibers' = [fibers EXCEPT ![f].pc = "saving"]
    /\ UNCHANGED <<ref, store, sub, running, fileTree, fileError, mounted,
                   ops, fired, lastSettled>>

PickerRejected(f) ==
    /\ fibers[f].pc = "picking"
    /\ fibers' = [fibers EXCEPT ![f].pc = "removing"]
    /\ UNCHANGED <<ref, store, sub, running, fileTree, fileError, mounted,
                   ops, fired, lastSettled>>

\* a call that sets the state to Selected without the setItem before it
SelectsUnsaved(f) ==
    /\ fibers[f].pc = "saving"
    /\ Commit(Selected(fibers[f].handle))
    /\ fibers' = [fibers EXCEPT ![f] = Idle]
    /\ UNCHANGED <<store, fileTree, mounted, ops, fired, lastSettled>>

\* setItem resolved: Ref.set(ref, State.Selected({directory, files}))
SetItemDone(f) ==
    /\ fibers[f].pc = "saving"
    /\ store' = fibers[f].handle
    /\ Commit(Selected(fibers[f].handle))
    /\ fibers' = [fibers EXCEPT ![f] = Idle]
    /\ UNCHANGED <<fileTree, mounted, ops, fired, lastSettled>>

\* a merge that keeps one element however many of its sources emitted
HostEventCoalesces(src) ==
    /\ fired < MaxTriggers
    /\ sub.active
    /\ sub' = [sub EXCEPT
                 !.pending = 1,
                 !.overtaken = @ \/ \E i \in DOMAIN running : ~running[i].aborted]
    /\ fired' = fired + 1
    /\ UNCHANGED <<ref, store, fibers, running, fileTree, fileError, mounted,
                   ops, lastSettled>>

\* a source of the merged stream emits (for visibilitychange and the
\* schedule: an element that passed Stream.filter(isDocumentVisible)): one
\* more element to pull
HostEvent(src) ==
    /\ fired < MaxTriggers
    /\ sub.active
    /\ sub' = [sub EXCEPT
                 !.pending = @ + 1,
                 !.overtaken = @ \/ \E i \in DOMAIN running : ~running[i].aborted]
    /\ fired' = fired + 1
    /\ UNCHANGED <<ref, store, fibers, running, fileTree, fileError, mounted,
                   ops, lastSettled>>

\* document.visibilityState === "visible"
isDocumentVisible(d) == d.visible

\* a source whose elements all reach the merge
PassesUnfiltered(src, d) == TRUE

\* whether an element of a source reaches the merge: visibilitychange and the
\* schedule go through Stream.filter(isDocumentVisible), the others do not
Passes(src, d) ==
    src \in {"visibilitychange", "tick"} => isDocumentVisible(d)

\* an event of the host or a turn of the schedule: a visibilitychange event
\* comes with the visibility changed; the element reaches the merge when it
\* passes its source's filter
SourceFires(src) ==
    /\ doc.events < MaxEvents
    /\ sub.active
    /\ LET now == [doc EXCEPT
                     !.visible = IF src = "visibilitychange" THEN ~@ ELSE @]
       IN /\ doc' = [visible |-> now.visible, events |-> doc.events + 1,
                     last |-> [src |-> src, passed |-> Passes(src, now)]]
          /\ IF Passes(src, now)
             THEN HostEvent(src)
             ELSE UNCHANGED <<ref, store, fibers, sub, running, fileTree,
                              fileError, mounted, ops, fired, lastSettled>>

\* ref.changes: a subscription starts with the value the ref has
ChangesFromNowOn(current) == <<>>

Changes(current) == <<current>>

\* Ref.set on a SubscriptionRef: the value is published to the subscription
Published ==
    chan' = [chan EXCEPT
               !.log = Append(@, ref'),
               !.queue = IF chan.active THEN Append(@, ref') ELSE @]

\* useSyncExternalStore subscribes: Stream.runForEach(actor.changes, ...)
subscribe ==
    /\ ~chan.active
    /\ chan' = [chan EXCEPT !.active = TRUE, !.queue = Changes(ref),
                            !.position = Len(chan.log) - 1]
    /\ UNCHANGED sessionVars

\* the subscriber takes the next value: snapshot = value, then the callback
onChange ==
    /\ chan.active
    /\ chan.queue # <<>>
    /\ chan' = [chan EXCEPT !.queue = Tail(@), !.position = @ + 1,
                            !.seen = chan.position + 1,
                            !.snapshot = Head(chan.queue)]
    /\ UNCHANGED sessionVars

\* the function subscribe returned is called: the run is interrupted
unsubscribe ==
    /\ chan.active
    /\ chan' = [chan EXCEPT !.active = FALSE, !.queue = <<>>]
    /\ UNCHANGED sessionVars

\* flatMap pulls an element: "begin crawl", crawlDirectoryHandle is called
BeginCrawl ==
    /\ sub.active
    /\ sub.pending > 0
    /\ PullsNext(running)
    /\ running' = Append(running,
          [dir |-> sub.dir, pos |-> 0, tree |-> {}, aborted |-> FALSE])
    /\ sub' = [sub EXCEPT !.pending = @ - 1, !.overtaken = FALSE]
    /\ UNCHANGED <<ref, store, fibers, fileTree, fileError, mounted, ops,
                   fired, lastSettled>>

\* whether enumerating the directory behind h works: the directory the store
\* held at creation may be one that is no longer mounted
Mounted(h) == ~(h = boot.stored /\ ~boot.live)

\* whether the loop's next turn leaves by `break`
Breaks(c) ==
    /\ c.pos < Len(Visits(c.dir))
    /\ SignalChecked(Visits(c.dir)[c.pos + 1])
    /\ c.aborted

\* one turn of a crawl's `for await` loop, at whatever depth it is
CrawlStep(i) ==
    LET c == running[i]
        v == Visits(c.dir)[c.pos + 1]
    IN /\ Mounted(c.dir)
       /\ c.pos < Len(Visits(c.dir))
       /\ ~Breaks(c)
       /\ running' = [running EXCEPT
             ![i].pos = @ + 1,
             ![i].tree = IF ~Disallowed(v.name) /\ v.kind = "file"
                         THEN @ \cup {v.path} ELSE @]
       /\ UNCHANGED <<ref, store, fibers, sub, fileTree, fileError, mounted,
                      ops, fired, lastSettled>>

\* a crawl returns its tree: its loop ended, or broke on the aborted signal;
\* Stream.runForEach hands a delivered tree to setFileTree
CrawlReturn(i) ==
    LET c == running[i]
        atEnd == c.pos = Len(Visits(c.dir))
    IN /\ Mounted(c.dir)
       /\ (atEnd \/ Breaks(c))
       /\ running' = RemoveAt(running, i)
       /\ lastSettled' = [made |-> TRUE, delivered |-> Delivers(c),
                          threw |-> FALSE,
                          overtaken |-> ~c.aborted /\ sub.overtaken,
                          aborted |-> c.aborted,
                          complete |-> atEnd, dir |-> c.dir, state |-> ref]
       /\ IF Delivers(c)
          THEN /\ fileTree' = c.tree
               /\ sub' = [sub EXCEPT !.overtaken = FALSE,
                                      !.prev = [any |-> TRUE,
                                                overtaken |-> sub.overtaken,
                                                aborted |-> c.aborted]]
          ELSE UNCHANGED <<fileTree, sub>>
       /\ UNCHANGED <<ref, store, fibers, fileError, mounted, ops, fired>>

\* an enumeration of a crawl throws: the promise rejects, the run exits with
\* a failure and onExit sets fileError; Files then throws to the ErrorBoundary.
\* (A throw in an interrupted crawl of a mounted directory is as its return:
\* nothing takes it.)
CrawlThrow(i) ==
    LET c == running[i]
    IN /\ (~c.aborted \/ ~Mounted(c.dir))
       /\ running' = RemoveAt(running, i)
       /\ lastSettled' = [made |-> TRUE, delivered |-> FALSE, threw |-> TRUE,
                          overtaken |-> ~c.aborted /\ sub.overtaken,
                          aborted |-> c.aborted,
                          complete |-> FALSE, dir |-> c.dir, state |-> ref]
       /\ IF Delivers(c)
          THEN /\ fileError' = TRUE
               /\ sub' = NoSub
          ELSE UNCHANGED <<fileError, sub>>
       /\ UNCHANGED <<ref, store, fibers, fileTree, mounted, ops, fired>>

\* React renders Files after setFileError: `throw fileError`, the
\* ErrorBoundary shows its fallback and Files is unmounted, its effect
\* cleaned up and its fileTree state gone with it; nothing resets the boundary
ErrorRender ==
    /\ fileError
    /\ mounted
    /\ mounted' = FALSE
    /\ fileTree' = {}
    /\ running' = Interrupted(running)
    /\ sub' = NoSub
    /\ UNCHANGED <<ref, store, fibers, fileError, ops, fired, lastSettled>>

\* ------------------------------------------- the xstate session machine
MaxSends == 3
Events == {"SHOW_DIRECTORY_PICKER", "EJECT"}
NoDirectory == "undefined"
NoTarget == "none"
NoEvent == [made |-> FALSE]

\* a reset that assigns nothing
resetNothing(context) == context

\* actions.reset: assign({ directory: undefined })
reset(context) == [context EXCEPT !.directory = NoDirectory]

\* actions.save: localForage.setItem("directory", context.directory) is
\* called and not waited for; localForage stores undefined as null, and its
\* writes land in the order they were asked for
save(m) ==
    [m EXCEPT !.saves =
        Append(@, IF m.context.directory = NoDirectory
                  THEN Null ELSE m.context.directory)]

\* the `on` of each state node: the target of an event, if it has one
on(value, type) ==
    IF value = "empty" /\ type = "SHOW_DIRECTORY_PICKER" THEN "selecting"
    ELSE IF value = "selected" /\ type = "EJECT" THEN "empty"
    ELSE NoTarget

\* a state node is entered: `empty` has the entry action reset
enter(m, target) ==
    [m EXCEPT !.value = target,
              !.context = IF target = "empty" THEN reset(@) ELSE @]

\* assign({ directory: ({ event }) => event.output })
assign(m, output) == [m EXCEPT !.context.directory = output]

\* actor.send(event): the state's transition for the event if it has one,
\* then the machine's `always`, which runs save; last is history: the event
\* and the state and context it was sent in
send(type) ==
    /\ machine.sent < MaxSends
    /\ LET target == on(machine.value, type)
           next == IF machine.status # "active" THEN machine
                   ELSE IF target = NoTarget THEN save(machine)
                   ELSE save(enter(machine, target))
       IN machine' =
             [next EXCEPT !.sent = @ + 1,
                          !.last = [made |-> TRUE, type |-> type,
                                    value |-> machine.value,
                                    context |-> machine.context]]

\* restoring.invoke.onDone: restore read the item "directory"; a truthy
\* output is assigned and the machine is selected, or else it is empty
restoreDone ==
    /\ machine.status = "active"
    /\ machine.value = "restoring"
    /\ LET output == getItem(machine.items, "directory")
       IN machine' =
             IF output # Null
             THEN save(enter(assign(machine, output), "selected"))
             ELSE save(enter(machine, "empty"))

\* restore rejected and restoring has no onError: the actor stops in error
restoreError ==
    /\ machine.status = "active"
    /\ machine.value = "restoring"
    /\ machine' = [machine EXCEPT !.status = "error"]

\* selecting.invoke.onDone: showDirectoryPicker resolved with a handle
filePickerDone(h) ==
    /\ machine.status = "active"
    /\ machine.value = "selecting"
    /\ machine' = save(enter(assign(machine, h), "selected"))

\* selecting.invoke.onError: the picker was dismissed or failed
filePickerError ==
    /\ machine.status = "active"
    /\ machine.value = "selecting"
    /\ machine' = save(enter(machine, "empty"))

\* the oldest write asked of localForage lands
setItemLands ==
    /\ machine.saves # <<>>
    /\ machine' = [machine EXCEPT
                     !.items = setItem(@, "directory", Head(machine.saves)),
                     !.saves = Tail(@)]

\* createActor(program).start(): restoring is entered with an empty context,
\* restore is invoked and `always` has run save once; the item "directory"
\* is absent or holds the handle saved in an earlier visit
startMachine(items) ==
    machine = save([status |-> "active", value |-> "restoring",
                    context |-> [directory |-> NoDirectory],
                    items |-> items, saves |-> <<>>, sent |-> 0,
                    last |-> NoEvent])
InitMachine ==
    \E items \in {<<>>, [k \in {"directory"} |-> "d1"]} : startMachine(items)
IdleMachine == startMachine(<<>>)

\* ------------------------------------- the useActionState session (part_000)
MaxSubmits == 3
NoFiles == [defined |-> FALSE, tree |-> <<>>]
NoAction == [type |-> "none"]
\* Payload
RefreshPayload == [type |-> "refresh"]
SelectPayload(d) == [type |-> "select", directory |-> d]
Payloads == {RefreshPayload} \cup {SelectPayload(d) : d \in Handles}

\* crawlDirectoryHandle(directoryHandle, previousFiles, precedingPaths) of
\* part_000: path keys to file handles; a handle of previousFiles is kept for
\* a path where the awaited isSameEntry is true. A handle is the entry it
\* denotes and the crawl that first met it.
RECURSIVE crawlFileTree(_, _, _, _, _)
crawlFileTree(d, children, previousFiles, precedingPaths, epoch) ==
    IF Len(children) = 0 THEN <<>>
    ELSE LET c == Head(children)
             path == PathOf(precedingPaths, c.name)
             observed == [ent |-> <<d, path>>, kind |-> c.kind, ref |-> epoch]
             handle == IF path \in DOMAIN previousFiles
                          /\ previousFiles[path].ent = observed.ent
                       THEN previousFiles[path]
                       ELSE observed
             partialTree ==
                IF Disallowed(c.name) THEN <<>>
                ELSE IF handle.kind = "file" THEN path :> handle
                ELSE crawlFileTree(d, c.children, previousFiles, path, epoch)
         IN crawlFileTree(d, Tail(children), previousFiles, precedingPaths,
                          epoch) @@ partialTree

\* a select that starts over: no files kept, no refresh asked for
onSelectStartsOver(state, payload) ==
    [state |-> [directory |-> payload.directory, files |-> NoFiles],
     submit |-> <<>>, crawl |-> FALSE]

\* payload.type === "select": submit({type: "refresh"}) and
\* return {...state, directory: payload.directory}
onSelect(state, payload) ==
    [state |-> [state EXCEPT !.directory = payload.directory],
     submit |-> <<RefreshPayload>>, crawl |-> FALSE]

\* the function given to useActionState, up to its first await: the state it
\* returns at once, what it submits, and whether it goes on to crawl
reducer(state, payload) ==
    IF payload.type = "select" THEN onSelect(state, payload)
    ELSE IF payload.type = "refresh" /\ state.directory # NoDirectory
    THEN [state |-> state, submit |-> <<>>, crawl |-> TRUE]
    ELSE [state |-> state, submit |-> <<>>, crawl |-> FALSE]

\* submit(payload) from a listener or from the button: the action joins the
\* queue of the hook. The button is rendered while no directory is shown.
\* log is history: every payload submitted, in order
submit(payload) ==
    /\ actionState.status = "active"
    /\ actionState.submits < MaxSubmits
    /\ payload.type = "select" => actionState.state.directory = NoDirectory
    /\ actionState' = [actionState EXCEPT !.queue = Append(@, payload),
                                          !.log = Append(@, payload),
                                          !.submits = @ + 1]

\* the hook runs the oldest queued action when none is running, with the
\* state the action before it returned; what the action submits joins the
\* queue behind the actions that wait. taken, applied and before are
\* history: the payload run last, the number run so far, the state it got
runAction ==
    /\ actionState.status = "active"
    /\ actionState.current = NoAction
    /\ actionState.queue # <<>>
    /\ LET payload == Head(actionState.queue)
           r == reducer(actionState.state, payload)
       IN actionState' =
             [actionState EXCEPT
                !.queue = Tail(@) \o r.submit,
                !.log = @ \o r.submit,
                !.state = r.state,
                !.current = IF r.crawl
                            THEN [type |-> "refresh",
                                  directory |-> r.state.directory]
                            ELSE NoAction,
                !.crawls = IF r.crawl THEN @ + 1 ELSE @,
                !.taken = payload,
                !.before = actionState.state,
                !.applied = @ + 1]

\* the crawl of a refresh returns: return {...state, files}
crawlDone ==
    /\ actionState.current # NoAction
    /\ LET state == actionState.state
           files == crawlFileTree(actionState.current.directory,
                                  DirOf(actionState.current.directory),
                                  state.files.tree, <<>>, actionState.crawls)
       IN actionState' =
             [actionState EXCEPT
                !.state = [state EXCEPT !.files = [defined |-> TRUE,
                                                   tree |-> files]],
                !.current = NoAction]

\* the crawl of a refresh throws: the action rejects, the hook drops the
\* actions that wait and throws the error to the render
crawlThrows ==
    /\ actionState.current # NoAction
    /\ actionState' = [actionState EXCEPT !.status = "error",
                                          !.queue = <<>>,
                                          !.current = NoAction]

\* useActionState(fn, {}) at the first render
InitActionState ==
    actionState = [status |-> "active",
                   state |-> [directory |-> NoDirectory, files |-> NoFiles],
                   queue |-> <<>>, current |-> NoAction, crawls |-> 0,
                   log |-> <<>>, submits |-> 0, applied |-> 0,
                   taken |-> NoAction,
                   before |-> [directory |-> NoDirectory, files |-> NoFiles]]

\* restored ? State.Selected({directory: restored, ...}) : State.Ejected()
AlwaysEjected(restored) == Ejected

InitialState(restored) ==
    IF restored = NoHandle THEN Ejected ELSE Selected(restored)

\* makeMainActor with `restored` read from the store, and the first render;
\* live tells whether the directory behind `restored` can be enumerated.
\* makeMainActor reads the store and calls nothing else of it.
InitSession(restored, live) ==
    /\ store = restored
    /\ ref = InitialState(restored)
    /\ sub = IF ref.tag = "Selected" THEN Subscribed(ref.directory) ELSE NoSub
    /\ boot = [stored |-> restored, live |-> live, removes |-> 0,
               state |-> ref, sub |-> sub]
    /\ fibers = [f \in FiberIds |-> Idle]
    /\ running = <<>>
    /\ fileTree = {}
    /\ fileError = FALSE
    /\ mounted = TRUE
    /\ ops = 0
    /\ fired = 0
    /\ lastSettled = [made |-> FALSE]

InitLoader ==
    /\ fs \in SeedTrees
    /\ fsOps = 0
    /\ crawls = 0
    /\ loaderData = NoData
    /\ regAtCrawl = <<>>
    /\ prevData = NoData

InitRegistry ==
    /\ knownFileSystemHandles = <<>>
    /\ nextRef = 1
    /\ lastCall = NoCall
    /\ returnedBy = <<>>

\* the parts of the state a specification does not exercise stay as built
IdleRegistry == InitRegistry
IdleLoader ==
    /\ fs = EmptyTree
    /\ fsOps = 0
    /\ crawls = 0
    /\ loaderData = NoData
    /\ regAtCrawl = <<>>
    /\ prevData = NoData
IdleSession == InitSession(NoHandle, TRUE)
NoSource == [src |-> "none", passed |-> FALSE]
IdleDocument == doc = [visible |-> TRUE, events |-> 0, last |-> NoSource]

\* a service of each layer is built: Memory's Ref holds Option.none(), and
\* localforage holds no item under the service's tag in a store never
\* written to; it may hold the item "directory" of the session actor
InitValueStore ==
    \E items \in {<<>>, [k \in {"directory"} |-> "d1"]} :
        valueStore = [ref |-> None, items |-> items, startItems |-> items,
                      wrote |-> [l \in Layers |-> None], calls |-> 0,
                      got |-> [made |-> FALSE]]
IdleValueStore ==
    valueStore = [ref |-> None, items |-> <<>>, startItems |-> <<>>,
                  wrote |-> [l \in Layers |-> None], calls |-> 0,
                  got |-> [made |-> FALSE]]

\* storePromise: snapshot is the head of actor.changes, nothing subscribed
\* yet; log is the history of the values the ref had, position the place in
\* it before the value the subscription hands over next, seen the place of
\* the value that was read or handed over last
InitStore ==
    chan = [log |-> <<ref>>, active |-> FALSE, queue |-> <<>>, position |-> 0,
            seen |-> 1, snapshot |-> ref]

\* each specification leaves the other programs' state alone
FrameR == UNCHANGED <<loaderVars, sessionVars, doc, chan, valueStore, machine,
             actionState>>
FrameL == UNCHANGED <<sessionVars, doc, chan, valueStore, machine, actionState>>
\* (and makeMainActor ran once: what it found does not change)
FrameS == UNCHANGED <<regVars, loaderVars, boot, doc, chan, valueStore, machine,
             actionState>>
FrameD == UNCHANGED <<regVars, loaderVars, boot, chan, valueStore, machine,
             actionState>>
FrameC == UNCHANGED <<regVars, loaderVars, boot, doc, valueStore, machine,
             actionState>>
FrameA == UNCHANGED <<regVars, loaderVars, sessionVars, doc, chan, valueStore,
             machine>>
FrameM == UNCHANGED <<regVars, loaderVars, sessionVars, doc, chan, valueStore,
             actionState>>
FrameV == UNCHANGED <<regVars, loaderVars, sessionVars, doc, chan, machine,
             actionState>>

NextRegistry ==
    \/ (\E p \in RegistryKeys, e \in 1..MaxEnts, k \in Kinds, c \in BOOLEAN :
          Resolve(p, e, k, c)) /\ FrameR
    \/ (\E p \in RegistryKeys : Release(p)) /\ FrameR

InitR == InitRegistry /\ IdleLoader /\ IdleSession /\ IdleDocument /\ InitStore
         /\ IdleValueStore /\ IdleMachine /\ InitActionState
SpecRegistry == InitR /\ [][NextRegistry]_vars

NextLoader ==
    \/ clientLoader /\ FrameL
    \/ (\E parts \in DirPaths(fs, <<>>), n \in Names, k \in Kinds :
          \E pos \in {1, Len(ChildrenOf(fs, parts)) + 1} :
             AddEntry(parts, pos, n, k)) /\ FrameL
    \/ (\E parts \in EntryPaths(fs, <<>>) : RemoveEntry(parts)) /\ FrameL
    \/ (\E parts \in EntryPaths(fs, <<>>) : ReplaceEntry(parts)) /\ FrameL
    \/ CollectGarbage /\ FrameL

InitL == InitLoader /\ IdleRegistry /\ IdleSession /\ IdleDocument /\ InitStore
         /\ IdleValueStore /\ IdleMachine /\ InitActionState
SpecLoader == InitL /\ [][NextLoader]_vars

NextSession ==
    \/ (\E f \in FiberIds : eject(f)) /\ FrameS
    \/ (\E f \in FiberIds : RemoveItemDone(f)) /\ FrameS
    \/ (\E f \in FiberIds : showDirectoryPicker(f)) /\ FrameS
    \/ (\E f \in FiberIds, h \in Handles : PickerResolved(f, h)) /\ FrameS
    \/ (\E f \in FiberIds : PickerRejected(f)) /\ FrameS
    \/ (\E f \in FiberIds : SetItemDone(f)) /\ FrameS
    \/ (\E src \in EventSources : HostEvent(src)) /\ FrameS
    \/ BeginCrawl /\ FrameS
    \/ (\E i \in DOMAIN running : CrawlStep(i)) /\ FrameS
    \/ (\E i \in DOMAIN running : CrawlReturn(i)) /\ FrameS
    \/ (\E i \in DOMAIN running : CrawlThrow(i)) /\ FrameS
    \/ ErrorRender /\ FrameS

\* the store is empty, or holds the handle picked in an earlier visit, whose
\* directory may have been unmounted since
Restorable == {<<NoHandle, TRUE>>, <<"d1", TRUE>>, <<"d1", FALSE>>}

InitS == (\E r \in Restorable : InitSession(r[1], r[2]))
         /\ IdleRegistry /\ IdleLoader /\ IdleDocument /\ InitStore
         /\ IdleValueStore /\ IdleMachine /\ InitActionState
Spec == InitS /\ [][NextSession]_vars

\* the files stream of a Selected session under the events of its document,
\* shown or in the background when the session starts
NextStream ==
    \/ (\E src \in EventSources : SourceFires(src)) /\ FrameD
    \/ BeginCrawl /\ FrameS
    \/ (\E i \in DOMAIN running : CrawlStep(i)) /\ FrameS
    \/ (\E i \in DOMAIN running : CrawlReturn(i)) /\ FrameS

InitD == /\ InitSession("d1", TRUE)
         /\ doc \in [visible : BOOLEAN, events : {0}, last : {NoSource}]
         /\ IdleRegistry /\ IdleLoader /\ InitStore /\ IdleValueStore
         /\ IdleMachine /\ InitActionState
SpecStream == InitD /\ [][NextStream]_vars

\* the same with the event loop at work: a trigger that can be pulled is
\* pulled, an enumeration that can answer answers, a crawl that can return
\* returns
LiveStream ==
    /\ SpecStream
    /\ WF_vars(BeginCrawl /\ FrameS)
    /\ WF_vars((\E i \in DOMAIN running : CrawlStep(i)) /\ FrameS)
    /\ WF_vars((\E i \in DOMAIN running : CrawlReturn(i)) /\ FrameS)

\* the actor's calls as the store's subscriber sees them
NextChanges ==
    \/ (\E f \in FiberIds : eject(f)) /\ FrameS
    \/ (\E f \in FiberIds : RemoveItemDone(f)) /\ Published /\ FrameC
    \/ (\E f \in FiberIds : showDirectoryPicker(f)) /\ Published /\ FrameC
    \/ (\E f \in FiberIds, h \in Handles : PickerResolved(f, h)) /\ FrameS
    \/ (\E f \in FiberIds : PickerRejected(f)) /\ FrameS
    \/ (\E f \in FiberIds : SetItemDone(f)) /\ Published /\ FrameC
    \/ subscribe /\ FrameC
    \/ onChange /\ FrameC
    \/ unsubscribe /\ FrameC

SpecChanges == InitS /\ [][NextChanges]_vars

\* the ValueStore service used through either layer
NextValueStore ==
    \/ (\E layer \in Layers, value \in Handles : set(layer, value)) /\ FrameV
    \/ (\E layer \in Layers : unset(layer)) /\ FrameV
    \/ (\E layer \in Layers : get(layer)) /\ FrameV

InitV == InitValueStore /\ IdleRegistry /\ IdleLoader /\ IdleSession
         /\ IdleDocument /\ InitStore /\ IdleMachine /\ InitActionState
SpecValueStore == InitV /\ [][NextValueStore]_vars

\* the xstate machine under the user's events, its invoked promises and
\* localForage's writes
NextMachine ==
    \/ (\E type \in Events : send(type)) /\ FrameM
    \/ restoreDone /\ FrameM
    \/ restoreError /\ FrameM
    \/ (\E h \in Handles : filePickerDone(h)) /\ FrameM
    \/ filePickerError /\ FrameM
    \/ setItemLands /\ FrameM

InitM == InitMachine /\ IdleRegistry /\ IdleLoader /\ IdleSession
         /\ IdleDocument /\ InitStore /\ IdleValueStore /\ InitActionState
SpecMachine == InitM /\ [][NextMachine]_vars

\* the useActionState session under the listeners, the button, the hook's
\* queue and the crawls
NextActions ==
    \/ (\E payload \in Payloads : submit(payload)) /\ FrameA
    \/ runAction /\ FrameA
    \/ crawlDone /\ FrameA
    \/ crawlThrows /\ FrameA

InitA == InitActionState /\ IdleRegistry /\ IdleLoader /\ IdleSession
         /\ IdleDocument /\ InitStore /\ IdleValueStore /\ IdleMachine
SpecActions == InitA /\ [][NextActions]_vars

\* =================================================================== claims

\* the crawls whose signal has not been raised
Active == {i \in DOMAIN running : ~running[i].aborted}

\* a step in which one more crawl starts
CrawlStarts == Len(running') = Len(running) + 1

\* C1: of the crawls of a Selected session only the most recently triggered
\* one is published: a crawl during which a further trigger fired never has
\* its result applied to the published entries.
C1_LatestWins ==
    (lastSettled.made /\ lastSettled.delivered) => ~lastSettled.overtaken

\* C2: when a trigger fired while a crawl was in flight, that crawl's
\* cancellation signal has been raised by the time the next crawl starts.
C2_TriggerSupersedes ==
    [][(CrawlStarts /\ sub.prev.any /\ sub.prev.overtaken)
          => sub.prev.aborted]_vars

\* C3: in every reachable state at most one crawl of the session is between
\* its start and its completion or cancellation, however many triggers fire.
C3_OneActiveCrawl == Cardinality(Active) <= 1

\* a trigger fired during a crawl and waits while that crawl is active
C3_Witness ==
    /\ sub.active /\ sub.pending >= 1
    /\ Cardinality(Active) = 1
    /\ sub.overtaken

C7_EjectCancels ==
    [][/\ (ref.tag = "Selected" /\ ref'.tag = "Ejected")
             => /\ store' = NoHandle
                /\ \A i \in DOMAIN running' : running'[i].aborted
       /\ (lastSettled'.made /\ lastSettled'.delivered)
             => lastSettled'.state = Selected(lastSettled'.dir)]_vars

\* a crawl that was in flight at an eject returned while the session was
\* Ejected, and its result was dropped
C7_Witness ==
    /\ ref.tag = "Ejected" /\ store = NoHandle
    /\ lastSettled.made /\ lastSettled.state.tag = "Ejected"
    /\ lastSettled.aborted /\ ~lastSettled.delivered

\* C8: once a crawl's cancellation is requested it processes no further
\* child, at any depth of the traversal.
C8_NoChildAfterCancel ==
    [][\A i \in DOMAIN running :
          (Len(running') = Len(running) /\ running[i].aborted)
              => running'[i].pos = running[i].pos]_vars

\* C11: when at creation the store holds no handle, or a handle whose
\* directory cannot be enumerated, the session starts Ejected with no crawl
\* and the store's removeItem has been called exactly once.
C11_RestoreClearsDeadHandle ==
    (boot.stored = NoHandle \/ ~boot.live)
        => /\ boot.state = Ejected
           /\ ~boot.sub.active
           /\ boot.removes = 1

\* C12: when at creation the store holds a handle whose directory can be
\* enumerated, the session starts in Selected with that handle, with the run
\* of its files holding the one initial trigger, and until a button is
\* clicked the state stays Selected and the store keeps the handle.
C12_RestoreLiveHandle ==
    (boot.stored # NoHandle /\ boot.live)
        => /\ boot.state = Selected(boot.stored)
           /\ boot.sub.active
           /\ boot.sub.dir = boot.stored
           /\ boot.sub.pending = 1
           /\ (ops = 0 => ref = boot.state /\ store = boot.stored)

\* the crawl of a restored directory was published with no click and no
\* host event
C12_Witness ==
    /\ boot.stored # NoHandle /\ boot.live
    /\ ops = 0 /\ fired = 0
    /\ lastSettled.made /\ lastSettled.delivered
    /\ lastSettled.dir = boot.stored

\* a step in which a call of showDirectoryPicker ends after its setItem
PickCompletes ==
    \E f \in FiberIds : fibers[f].pc = "saving" /\ fibers'[f].pc = "idle"

\* C13: when the session becomes Selected after the picker gave a handle, the
\* store already holds that handle, and the step starts a run of the
\* directory's files that holds the initial trigger of a crawl.
C13_PickPersistsThenCrawls ==
    [][PickCompletes
          => /\ ref'.tag = "Selected"
             /\ store' = ref'.directory
             /\ sub' = Subscribed(ref'.directory)]_vars

\* a call of showDirectoryPicker past its picker with no handle in hand
PickerGaveNothing(f) ==
    /\ fibers[f].call = "showDirectoryPicker"
    /\ fibers[f].pc \notin {"idle", "picking"}
    /\ fibers[f].handle = NoHandle

\* C14: a call of showDirectoryPicker whose picker was cancelled or failed
\* goes on to nothing but the end of its eject: it never saves a handle, and
\* the step that ends it leaves the session Ejected and the store without a
\* handle, the call ending as any other, with no failure.
C14_PickerFailureReverts ==
    [][\A f \in FiberIds :
          PickerGaveNothing(f)
              => \/ fibers'[f] = fibers[f]
                 \/ /\ fibers'[f] = Idle
                    /\ ref' = Ejected
                    /\ store' = NoHandle]_vars

\* the picker of a call was cancelled while the store held a handle, and the
\* call is in its eject
C14_Witness ==
    \E f \in FiberIds :
        /\ PickerGaveNothing(f)
        /\ fibers[f].pc = "removing"
        /\ ref.tag = "Selecting"
        /\ store # NoHandle

\* C15: after a crawl of a Selected session failed, every step that leaves
\* the session state as it is and settles no other crawl leaves the store and
\* the published entries as they were at the failure.
C15_FailureKeepsSession ==
    [][(/\ lastSettled.made /\ lastSettled.threw /\ ~lastSettled.aborted
        /\ ref = lastSettled.state
        /\ ref' = ref
        /\ lastSettled' = lastSettled)
          => /\ store' = store
             /\ fileTree' = fileTree]_vars

\* the kind of the handle a crawl goes on with for the entry at `parts`
KindUsedAt(reg, disk, parts) ==
    LET n == NodeAt(disk, parts)
        observed == FileSystemHandle(0, Locator(Join(parts), n.kind), n.kind, n.name)
    IN StableHandleOf(reg, Join(parts), observed).kind

\* the crawl descends to `parts` and the enumeration there throws: no name on
\* the way is disallowed, every directory above is entered and read, and the
\* handle taken for `parts` is a directory handle where no directory is
ThrowsAt(reg, disk, parts) ==
    /\ \A i \in 1..Len(parts) : ~Disallowed(parts[i])
    /\ \A i \in 1..(Len(parts) - 1) :
          /\ NodeAt(disk, SubSeq(parts, 1, i)).kind = "directory"
          /\ KindUsedAt(reg, disk, SubSeq(parts, 1, i)) = "directory"
    /\ KindUsedAt(reg, disk, parts) = "directory"
    /\ NodeAt(disk, parts).kind # "directory"

EnumerationThrows ==
    /\ loaderData.run
    /\ \E parts \in EntryPaths(loaderData.disk, <<>>) :
          ThrowsAt(regAtCrawl, loaderData.disk, parts)

\* C16: when the enumeration of a directory a crawl reached threw, the crawl
\* failed as a whole: the loader has no tree and no entry list of it, so none
\* in which that directory is empty or partly filled.
C16_EnumerationFailureFailsCrawl ==
    EnumerationThrows
        => /\ ~loaderData.ok
           /\ DOMAIN loaderData = {"run", "ok", "disk"}

\* a crawl went into a subdirectory through a handle of an earlier crawl and
\* the enumeration there threw
C16_Witness ==
    /\ EnumerationThrows
    /\ ~loaderData.ok
    /\ prevData.run /\ prevData.ok

\* C17: cancelling a crawl is not a failure: the failure signal is raised
\* only by a step in which a crawl ends with a throw of an enumeration, never
\* by a step that cancels the run of a crawl (an eject, the open button, the
\* end of the subscription).
C17_CancelIsNoFailure ==
    [][(fileError' /\ ~fileError)
          => /\ Len(running') < Len(running)
             /\ lastSettled'.made /\ lastSettled'.threw]_vars

\* the path keys of an entry list, in its order
PathKeys(images) == [i \in 1..Len(images) |-> images[i].fullPath]

\* C18: two crawls in a row of a directory that is the same at both end the
\* same way, and when they return, their trees and the path keys of their
\* entry lists are equal, whatever the registry held at each.
C18_RecrawlSameResult ==
    (loaderData.run /\ prevData.run /\ loaderData.disk = prevData.disk)
        => /\ loaderData.ok = prevData.ok
           /\ loaderData.ok
                 => /\ loaderData.tree = prevData.tree
                    /\ PathKeys(loaderData.images) = PathKeys(prevData.images)

\* what a crawl of the directory gives when no earlier crawl left anything
\* in the registry
FreshCrawl(disk) == crawlDirectoryHandle(disk, RootHandle, <<>>, <<>>, 0)

\* C19: whatever earlier crawls left in the registry, a completed crawl has
\* the tree and the path keys, in order, that a crawl of the same directory
\* with an empty registry has: the registry decides references only.
C19_RegistryOnlyReferences ==
    (loaderData.run /\ loaderData.ok)
        => /\ FreshCrawl(loaderData.disk).ok
           /\ loaderData.tree = FreshCrawl(loaderData.disk).tree
           /\ PathKeys(loaderData.images)
                 = PathKeys(FreshCrawl(loaderData.disk).images)

\* C20: every emission of a source adds exactly one trigger to those waiting,
\* none is merged with another; a subscription starts with exactly one
\* trigger, that of Stream.void; triggers are added by nothing else, and each
\* start of a crawl takes exactly one of them.
C20_OneTriggerPerFiring ==
    [][/\ (fired' = fired + 1) => (sub'.pending = sub.pending + 1)
       /\ (PickCompletes /\ mounted) => (sub'.active /\ sub'.pending = 1)
       /\ (sub'.pending > sub.pending)
             => (fired' = fired + 1 \/ (PickCompletes /\ sub'.pending = 1))
       /\ CrawlStarts => (sub'.pending = sub.pending - 1)]_vars

\* the user picked a directory and, no crawl of it begun yet, a source
\* emitted: two triggers wait
C20_Witness ==
    /\ ops > 0
    /\ fired = 1
    /\ sub.active
    /\ sub.pending = 2

GatedSources == {"visibilitychange", "tick"}

\* C21: when the visibilitychange source or the schedule fires, one trigger
\* is added if the document is visible at that moment, and if it is hidden
\* no trigger is added and no crawl starts.
C21_GatedOnVisibility ==
    [][(doc'.events = doc.events + 1 /\ doc'.last.src \in GatedSources)
          => IF doc'.visible
             THEN sub'.pending = sub.pending + 1
             ELSE sub' = sub /\ running' = running]_vars

\* the document went to the background and the schedule fired then: nothing
\* waits, no crawl runs
C21_Witness ==
    /\ ~doc.visible
    /\ doc.last.src = "tick" /\ ~doc.last.passed
    /\ lastSettled.made
    /\ sub.pending = 0 /\ running = <<>>

\* C22: what the subscriber was handed and what still waits for it are, in
\* order and each once, the values the state had from its subscription on, up
\* to the current one; a subscription starts with the current state; and the
\* snapshot is the value handed over last (the first state before any).
C22_OrderedReplay ==
    /\ chan.log[Len(chan.log)] = ref
    /\ chan.active
          => /\ chan.position + Len(chan.queue) = Len(chan.log)
             /\ \A i \in 1..Len(chan.queue) :
                   chan.queue[i] = chan.log[chan.position + i]
    /\ chan.snapshot = chan.log[chan.seen]
    /\ (chan.active /\ chan.queue = <<>>) => chan.seen = Len(chan.log)

\* the state changed twice and the subscriber has been handed the third
\* state, the current one, which the snapshot now is
C22_Witness ==
    /\ chan.active
    /\ chan.position = 3 /\ Len(chan.log) = 3
    /\ chan.snapshot = ref
    /\ chan.log[2] # chan.log[3]

\* C23: the session comes to Selecting from Ejected only: a step that starts
\* with the session Selecting or Selected never puts it in Selecting anew or
\* takes a Selected session there.
C23_SelectingOnlyFromEjected ==
    [][(ref'.tag = "Selecting" /\ ops' = ops + 1) => ref.tag = "Ejected"]_vars

\* the equality test of the last resolve call was made and rejected
TestRejected ==
    /\ lastCall.made
    /\ lastCall.test.type = "promise"
    /\ lastCall.test.settled = "rejected"

\* C24: when the equality test of a resolve call rejects, the call returns
\* the observed handle and the registry holds the observed handle for the
\* path key.
C24_FailedTestIsNotSame ==
    TestRejected
        => /\ lastCall.ret = lastCall.observed
           /\ knownFileSystemHandles[lastCall.key].handle = lastCall.observed

\* C25: in the entry list of a crawl no path key occurs twice, and two
\* different entries of the crawled directory never get the same path key.
C25_PathKeysUnique ==
    (loaderData.run /\ loaderData.ok)
        => /\ \A i, j \in 1..Len(loaderData.images) :
                 i # j => loaderData.images[i].fullPath # loaderData.images[j].fullPath
           /\ \A p, q \in EntryPaths(loaderData.disk, <<>>) :
                 p # q => Join(p) # Join(q)

\* a crawl listed two files of the same name in different directories
C25_Witness ==
    /\ loaderData.run /\ loaderData.ok
    /\ \E i, j \in 1..Len(loaderData.images) :
          /\ i # j
          /\ loaderData.images[i].handle.name = loaderData.images[j].handle.name

\* C26: a crawl of a directory that holds nothing returns, with a tree of no
\* key and a list of no entry: what the loader has then is the data of a
\* selected directory, not the outcome of a crawl that failed.
C26_EmptyDirectory ==
    (loaderData.run /\ loaderData.disk = EmptyTree)
        => /\ loaderData.ok
           /\ loaderData.tree = <<>>
           /\ loaderData.images = <<>>

\* a directory that holds nothing was crawled, and crawled again
C26_Witness ==
    /\ loaderData.run /\ loaderData.ok
    /\ loaderData.disk = EmptyTree
    /\ loaderData.images = <<>>
    /\ prevData.run /\ prevData.disk = EmptyTree

\* C27: a get of either layer returns the value of the last set of that
\* layer when no unset came after it, and absent when an unset came last or
\* nothing was ever set; and no call changes any item of localforage but the
\* service's own.
C27_SingleSlot ==
    /\ valueStore.got.made => valueStore.got.value = valueStore.got.wrote
    /\ \A k \in (DOMAIN valueStore.items) \cup (DOMAIN valueStore.startItems) :
          k # ServiceTag
              => /\ k \in DOMAIN valueStore.items
                 /\ k \in DOMAIN valueStore.startItems
                 /\ valueStore.items[k] = valueStore.startItems[k]

\* the third call was a get of the IndexedDB layer that returned absent,
\* the item "directory" still there
C27_Witness ==
    /\ valueStore.got.made
    /\ valueStore.got.layer = "IndexedDB"
    /\ valueStore.got.value = None
    /\ valueStore.calls = 3
    /\ "directory" \in DOMAIN valueStore.items

\* no eject and no showDirectoryPicker call is under way
Quiescent == \A f \in FiberIds : fibers[f].pc = "idle"

\* C28: whenever no call of the actor is under way, the state is Selected
\* with the directory the store holds, or Ejected with the store empty,
\* however the steps of concurrent calls were interleaved.
C28_StateMatchesStore ==
    Quiescent => ref = (IF store = NoHandle THEN Ejected ELSE Selected(store))

\* two calls overlapped and have both ended
C28_Witness ==
    /\ Quiescent
    /\ ops = 2
    /\ store = "d2" /\ ref = Selected("d2")
    /\ boot.stored = NoHandle
    /\ chan.log = <<Ejected, Selecting, Selecting, Ejected, Selected("d2")>>

\* C29: a showDirectoryPicker call puts the session in Selecting also when
\* it was Selected; when its picker is cancelled or fails the call goes into
\* eject, and at its end the state is Ejected and the store holds no handle:
\* the selection of before is not brought back.
C29_CancelAfterSelectedEjects ==
    [][\A f \in FiberIds :
          /\ (fibers[f].pc = "idle" /\ fibers'[f].pc = "picking")
                => ref' = Selecting
          /\ (fibers[f].pc = "picking" /\ fibers'[f] # fibers[f])
                => \/ fibers'[f].pc = "saving" /\ fibers'[f].handle # NoHandle
                   \/ fibers'[f].pc = "removing" /\ ref' = ref /\ store' = store
          /\ (fibers[f].pc = "removing" /\ fibers'[f] # fibers[f])
                => fibers'[f] = Idle /\ ref' = Ejected /\ store' = NoHandle]_vars

\* a session restored with d1 selected went to Selecting on the open button
\* and, the picker cancelled, ended Ejected with the store empty
C29_Witness ==
    /\ Quiescent
    /\ ops = 1
    /\ boot.stored = "d1"
    /\ chan.log = <<Selected("d1"), Selecting, Ejected>>
    /\ store = NoHandle

\* C4: when a path key is resolved again, the cached handle has not been
\* released and the equality test between it and the newly observed handle
\* is true, the call returns the very reference the previous call for that
\* key returned.
C4_ReferenceStability ==
    (lastCall.made /\ lastCall.hadPrev /\ ~lastCall.released /\ lastCall.same)
        => lastCall.ret = lastCall.prevReturned

\* a second resolve of a key was handed a fresh object for the same entity
\* while the cached handle was still held
C4_Witness ==
    /\ lastCall.made /\ lastCall.hadPrev /\ ~lastCall.released /\ lastCall.same
    /\ lastCall.observed.ref # lastCall.prevReturned.ref

\* C5: when the equality test between the cached handle and the newly
\* observed one is false, resolve returns the observed handle and the
\* registry's entry for the key becomes the observed handle.
C5_NoStaleStickiness ==
    (lastCall.made /\ lastCall.hadPrev /\ ~lastCall.released /\ ~lastCall.same)
        => /\ lastCall.ret = lastCall.observed
           /\ knownFileSystemHandles[lastCall.key].handle = lastCall.observed

\* whether a "/"-joined path has a component that begins with "."
HasHiddenComponent(path) ==
    /\ Len(path) > 0
    /\ \/ path[1] = "."
       \/ \E i \in 1..(Len(path) - 1) : path[i] = "/" /\ path[i + 1] = "."

\* whether a tree has, at any depth, a key that begins with "."
RECURSIVE HasHiddenKey(_)
HasHiddenKey(tree) ==
    \E k \in DOMAIN tree :
        \/ HasHiddenComponent(k)
        \/ tree[k].node = "dir" /\ HasHiddenKey(tree[k].tree)

\* C9: no entry whose name begins with "." is in the tree or the entry list
\* of a crawl, at any depth, and neither is anything beneath a directory
\* whose name begins with ".".
C9_NoDisallowedNames ==
    (loaderData.run /\ loaderData.ok) =>
        /\ ~HasHiddenKey(loaderData.tree)
        /\ \A i \in 1..Len(loaderData.images) :
              /\ ~HasHiddenComponent(loaderData.images[i].fullPath)
              /\ ~HasHiddenComponent(loaderData.images[i].handle.name)

\* a crawl returned entries for a directory that holds a dot directory with
\* a file in it and a dot file two levels down
C9_Witness ==
    /\ loaderData.run /\ loaderData.ok
    /\ loaderData.disk = HiddenTree
    /\ Len(loaderData.images) > 0

\* the path keys of the leaves of a directory that are not disallowed,
\* depth first, a subdirectory's leaves in the place of the subdirectory
RECURSIVE LeafPaths(_, _)
LeafPaths(children, prefix) ==
    IF Len(children) = 0 THEN <<>>
    ELSE LET c == Head(children)
             here == IF Len(prefix) = 0 THEN c.name ELSE prefix \o Slash \o c.name
             first == IF c.name[1] = "." THEN <<>>
                      ELSE IF c.kind = "file" THEN <<here>>
                      ELSE LeafPaths(c.children, here)
         IN first \o LeafPaths(Tail(children), prefix)

\* the tree of a directory: leaf names to the leaf marker, directory names
\* with a trailing "/" to their trees
RECURSIVE ShapeOf(_)
ShapeOf(children) ==
    LET shown == {i \in 1..Len(children) : children[i].name[1] # "."}
        keyOf(i) == IF children[i].kind = "file" THEN children[i].name
                    ELSE children[i].name \o Slash
    IN [k \in {keyOf(i) : i \in shown} |->
          LET i == CHOOSE j \in shown : keyOf(j) = k
          IN IF children[i].kind = "file" THEN Leaf
             ELSE Subtree(ShapeOf(children[i].children))]

\* C10: the entry list of a crawl is the depth-first sequence of the leaves
\* that are not disallowed, in enumeration order, and its tree maps each leaf
\* name to the leaf marker and each directory name with "/" to its subtree.
C10_ListAndTree ==
    (loaderData.run /\ loaderData.ok) =>
        /\ [i \in 1..Len(loaderData.images) |-> loaderData.images[i].fullPath]
              = LeafPaths(loaderData.disk, <<>>)
        /\ loaderData.tree = ShapeOf(loaderData.disk)

\* the scenario of the specification: a.txt, .hidden and b/ holding c.txt,
\* crawled with nothing cached, give [a, b/c] and {a: leaf, b/: {c: leaf}}
C10_ExampleHolds ==
    (loaderData.run /\ loaderData.ok /\ loaderData.disk = ExampleTree
       /\ regAtCrawl = <<>>) =>
        /\ [i \in 1..Len(loaderData.images) |-> loaderData.images[i].fullPath]
              = <<NameA, NameB \o Slash \o NameC>>
        /\ loaderData.tree =
              (NameA :> Leaf) @@ ((NameB \o Slash) :> Subtree(NameC :> Leaf))

\* the path keys of the files a crawl of the directory behind h publishes
EntriesOf(h) ==
    {LeafPaths(DirOf(h), <<>>)[i] : i \in 1..Len(LeafPaths(DirOf(h), <<>>))}

\* C30: in a session that stays Selected, with the events of a behaviour
\* coming to an end and every enumeration answering, every trigger that
\* waits is taken by the start of a crawl, and from some moment on nothing
\* waits, no crawl runs and the published entries are those of a complete
\* crawl of the directory, the one the last trigger started.
C30_EventuallyLatest ==
    /\ \A n \in 1..(MaxTriggers + 2) :
          (sub.pending >= n) ~> (sub.pending < n)
    /\ <>[](/\ sub.pending = 0
            /\ running = <<>>
            /\ lastSettled.made /\ lastSettled.delivered /\ lastSettled.complete
            /\ fileTree = EntriesOf(sub.dir))

\* a source fired a trigger, others fired with the document hidden; the
\* crawls are over and the entries of the last one are published
C30_Witness ==
    /\ fired = 1
    /\ doc.events = MaxEvents
    /\ sub.pending = 0 /\ running = <<>>
    /\ lastSettled.made /\ lastSettled.delivered /\ lastSettled.complete
    /\ ~doc.visible
    /\ fileTree = EntriesOf("d1")
    /\ fileTree # {}

\* C31: a resolve of a path key leaves the registry's entry for that key
\* referring to exactly the handle the call returned and every other entry
\* as it was, and no step, a resolve or the collector's, takes a path key
\* out of the registry.
C31_ResolveFrame ==
    [][/\ DOMAIN knownFileSystemHandles \subseteq DOMAIN knownFileSystemHandles'
       /\ (nextRef' # nextRef) =>
             /\ lastCall'.made
             /\ DOMAIN knownFileSystemHandles' =
                   (DOMAIN knownFileSystemHandles) \cup {lastCall'.key}
             /\ knownFileSystemHandles'[lastCall'.key] =
                   [handle |-> lastCall'.ret, live |-> TRUE]
             /\ \A q \in (DOMAIN knownFileSystemHandles) \ {lastCall'.key} :
                   knownFileSystemHandles'[q] = knownFileSystemHandles[q]
      ]_vars

\* a key was resolved while the registry held another key's entry, whose
\* handle the collector had taken, and the call returned the handle cached
\* for its own key instead of the one it was given
C31_Witness ==
    /\ lastCall.made
    /\ lastCall.ret # lastCall.observed
    /\ \E q \in (DOMAIN knownFileSystemHandles) \ {lastCall.key} :
          /\ q \in DOMAIN lastCall.regBefore
          /\ ~knownFileSystemHandles[q].live

\* C32: in the xstate machine, which starts in `restoring`, every step that
\* ends in `selected` ends with a directory in the context and every step
\* that ends in `empty` ends without one; SHOW_DIRECTORY_PICKER
\* sent in a state other than `empty`, and EJECT sent in a state other than
\* `selected`, change neither the state nor the context.
C32_MachineInvariants ==
    [][/\ machine'.value = "selected" =>
            machine'.context.directory \in Handles
       /\ machine'.value = "empty" =>
            machine'.context.directory = NoDirectory
       /\ (machine'.sent = machine.sent + 1) =>
            /\ (machine'.last.type = "SHOW_DIRECTORY_PICKER"
                  /\ machine.value # "empty") =>
                    /\ machine'.value = machine.value
                    /\ machine'.context = machine.context
            /\ (machine'.last.type = "EJECT"
                  /\ machine.value # "selected") =>
                    /\ machine'.value = machine.value
                    /\ machine'.context = machine.context
      ]_vars

\* a directory was picked after an eject, and SHOW_DIRECTORY_PICKER was then
\* sent to the selected machine, which holds the directory still
C32_Witness ==
    /\ machine.sent = 3
    /\ machine.last.made
    /\ machine.last.type = "SHOW_DIRECTORY_PICKER"
    /\ machine.last.value = "selected"
    /\ machine.value = "selected"
    /\ machine.context.directory = "d2"
    /\ getItem(machine.items, "directory") = "d2"

\* C33: in the useActionState session, an action is run only when none is
\* running and it is the next of the submitted ones in the order they were
\* submitted; a refresh run while the state has no directory leaves the
\* state as it was and starts no crawl; a select run puts its directory in
\* the state, leaves the state's files as they were, starts no crawl and
\* leaves the queue as it was but for the select taken from its head and
\* one refresh put at its end.
C33_ReducerQueue ==
    [][(actionState'.applied = actionState.applied + 1) =>
         LET payload == actionState'.taken
             state == actionState.state
         IN /\ actionState.current = NoAction
            /\ payload = actionState.log[actionState'.applied]
            /\ (payload.type = "refresh" /\ state.directory = NoDirectory) =>
                  /\ actionState'.state = state
                  /\ actionState'.crawls = actionState.crawls
                  /\ actionState'.current = NoAction
            /\ payload.type = "select" =>
                  /\ actionState'.state.directory = payload.directory
                  /\ actionState'.state.files = state.files
                  /\ actionState'.crawls = actionState.crawls
                  /\ actionState'.current = NoAction
                  /\ actionState'.queue =
                        Tail(actionState.queue) \o <<RefreshPayload>>
      ]_vars

\* a listener's refresh was run with no directory, then the button's select
\* of d1, then the refresh the select submitted, whose crawl has returned
\* the one file that is not hidden
C33_Witness ==
    /\ actionState.log =
          <<RefreshPayload, SelectPayload("d1"), RefreshPayload>>
    /\ actionState.submits = 2
    /\ actionState.applied = 3
    /\ actionState.current = NoAction
    /\ actionState.crawls = 1
    /\ actionState.state.directory = "d1"
    /\ actionState.state.files.defined
    /\ DOMAIN actionState.state.files.tree = {Join(<<NameB, NameC>>)}

====
